---- MODULE Spec2Model ----
(***************************************************************************)
(* RQpy core fitting routines: fit_multi_gauss and fit_gauss               *)
(* (rqpy/core/_fitting.py) and n_gauss / gaussian                          *)
(* (rqpy/core/_functions.py), under Spec; the plotting functions hist,      *)
(* scatter, densityplot, plot_gauss, plot_n_gauss and                      *)
(* plot_saturation_correction (rqpy/plotting/_plotting.py), under SpecPlot.*)
(*                                                                         *)
(* Python sequences are 0-based; the model keeps Python indices as they    *)
(* are and reads element i of a sequence s with At(s, i) = s[i + 1].       *)
(* Real numbers are exact: a mean is the rational [num, den], a square     *)
(* root is kept as its radicand, a Gaussian as the term amp*exp(-num/den). *)
(***************************************************************************)
EXTENDS Integers, Sequences, FiniteSets, TLC

VARIABLES pc, fn, arr, guess, ngauss, params, noiserange, lgcplot,
          x, y, yerr, win, background, y_noback, p0, fitcall, fitparams,
          fitmodel, plots, ret, raised,
          pargs, labeldict, labels, relabelled, drawn, cuteff, cutefftot, norm

vars == <<pc, fn, arr, guess, ngauss, params, noiserange, lgcplot,
          x, y, yerr, win, background, y_noback, p0, fitcall, fitparams,
          fitmodel, plots, ret, raised,
          pargs, labeldict, labels, relabelled, drawn, cuteff, cutefftot, norm>>

\* the state of the fitting routines that a plotting call leaves alone
fitvars == <<arr, guess, ngauss, params, noiserange, lgcplot,
             x, y, yerr, win, background, y_noback, p0, fitcall, fitparams,
             fitmodel, plots>>

\* the state of the plotting functions that a fitting call leaves alone
plotvars == <<pargs, labeldict, labels, relabelled, drawn, cuteff, cutefftot, norm>>

\* ---------------------------------------------------------------- bounds
\* number of histogram bins produced by the binning
NBins == 4
\* largest number of samples in the array handed to a fit
MaxSamples == 4
\* largest length of the guess of fit_multi_gauss
MaxGuessLen == 7
\* largest length of the params of a direct call of n_gauss
MaxParams == 7
\* parameter values are drawn from 1..MaxVal
MaxVal == 2

\* Python's None, and a local that has not been assigned: the empty tuple.
\* A value that may be absent is held as Some(v).
None == <<>>
Some(v) == <<v>>
\* no exception
NoExc == "none"

\* -------------------------------------------------------- Python / numpy
At(s, i) == s[i + 1]

Range(s) == {s[i] : i \in 1..Len(s)}

Abs(v) == IF v < 0 THEN -v ELSE v

\* a slice bound: negative bounds count from the end, then clamp to 0..len
SliceBound(b, len) ==
  LET c == IF b < 0 THEN b + len ELSE b
  IN IF c < 0 THEN 0 ELSE IF c > len THEN len ELSE c

\* s[start:stop]
PySlice(s, start, stop) ==
  LET lo == SliceBound(start, Len(s))
      hi == SliceBound(stop, Len(s))
  IN IF lo >= hi THEN <<>> ELSE SubSeq(s, lo + 1, hi)

\* s[start:stop:step], step > 0
PySliceStep(s, start, stop, step) ==
  LET lo == SliceBound(start, Len(s))
      hi == SliceBound(stop, Len(s))
      n  == IF lo >= hi THEN 0 ELSE (hi - lo + step - 1) \div step
  IN [k \in 1..n |-> s[lo + (k - 1) * step + 1]]

RECURSIVE SeqSum(_)
SeqSum(s) == IF s = <<>> THEN 0 ELSE s[1] + SeqSum(Tail(s))

\* Python's int(): truncation toward zero of the quotient num/den, den > 0
IntTrunc(num, den) ==
  IF num >= 0 THEN num \div den ELSE -((-num) \div den)

\* ------------------------------------------------------------ real numbers
\* the rational num/den, den > 0; den = 0 is numpy's nan
Rat(n, d) == [num |-> n, den |-> d]
IsNaN(r) == r.den = 0
RatEq(a, b) == a.den # 0 /\ b.den # 0 /\ a.num * b.den = b.num * a.den

\* an array of reals with a common denominator: entry i is num[i]/den
RealArray(d, nums) == [den |-> d, num |-> nums]
AsReal(ints) == RealArray(1, ints)
RealArrayEq(a, b) ==
  /\ a.den # 0 /\ b.den # 0 /\ Len(a.num) = Len(b.num)
  /\ \A i \in 1..Len(a.num) : a.num[i] * b.den = b.num[i] * a.den

\* np.mean of a sequence of counts: nan when the sequence is empty
NpMean(s) == Rat(SeqSum(s), Len(s))

\* the 0-based index of the first smallest entry of a sequence of integers
ArgminFirst(vals) ==
  (CHOOSE i \in 1..Len(vals) :
     /\ \A j \in 1..Len(vals) : vals[i] <= vals[j]
     /\ \A j \in 1..(i - 1) : vals[j] > vals[i]) - 1

\* the 0-based index of the first largest entry of a sequence of integers
ArgmaxFirst(vals) ==
  (CHOOSE i \in 1..Len(vals) :
     /\ \A j \in 1..Len(vals) : vals[i] >= vals[j]
     /\ \A j \in 1..(i - 1) : vals[j] < vals[i]) - 1

\* a.argmin(), np.argmax(a), np.max(a) of a real array; an array of nan has
\* its first entry as smallest and as largest
NpArgmin(a) == IF a.den = 0 THEN 0 ELSE ArgminFirst(a.num)
NpArgmax(a) == IF a.den = 0 THEN 0 ELSE ArgmaxFirst(a.num)
NpMax(a) == IF a.den = 0 THEN Rat(0, 0) ELSE Rat(At(a.num, ArgmaxFirst(a.num)), a.den)

\* (np.abs(x - c)).argmin(): the bin whose center is nearest to c
NearestBin(xs, c) == ArgminFirst([i \in 1..Len(xs) |-> Abs(xs[i] - c)])

\* ------------------------------------------------------ value domains
\* the bin centers: bin i (0-based) spans [2i, 2i + 2] and is centred at 2i + 1
Centers == [i \in 1..NBins |-> 2 * i - 1]

\* the fit range handed to the binning: the whole histogram
xrange == <<0, 2 * NBins>>

RECURSIVE SortedSeqs(_)
\* the non-decreasing sequences of exactly n samples lying at bin centers
SortedSeqs(n) ==
  IF n = 0 THEN {<<>>}
  ELSE {Append(s, v) : s \in SortedSeqs(n - 1), v \in Range(Centers)}
       \cap {s \in [1..n -> Range(Centers)] : \A i \in 1..(n - 1) : s[i] <= s[i + 1]}

\* the sample arrays handed to a fit
Arrs == UNION {SortedSeqs(n) : n \in 0..MaxSamples}

\* a parameter vector of length L with its entries ascending, and descending
Asc(L) == [i \in 1..L |-> i]
Desc(L) == [i \in 1..L |-> L + 1 - i]
ParamVecs(L) == {Asc(L), Desc(L)}

Guesses == UNION {ParamVecs(L) : L \in 0..MaxGuessLen}
NGaussVals == 0..((MaxGuessLen + 2) \div 3)

\* the params of a direct call of n_gauss
ParamsVals == UNION {[1..L -> 1..MaxVal] : L \in 0..MaxParams}
NVals == 0..((MaxParams + 2) \div 3)

\* the edges a noise window may be given: the bin centers, one point below
\* the fit range and one point above it
NoisePos == {2 * i - 1 : i \in 0..(NBins + 1)}

\* noiserange: None, or a window before and a window after the peak
NoiseRanges ==
  {None} \cup
  {nr \in (NoisePos \X NoisePos) \X (NoisePos \X NoisePos) :
     nr[1][1] < nr[1][2] /\ nr[1][2] <= nr[2][1] /\ nr[2][1] < nr[2][2]}

\* ------------------------------------------------- rqpy/core/_functions.py
\* gaussian(x, amp, mean, sd) = amp * exp(-(x - mean)**2 / (2 * sd**2)),
\* kept as the term amp * exp(-num / den)
gaussian(xv, amp, mean, sd) ==
  [kind |-> "gauss", amp |-> amp,
   num |-> (xv - mean) * (xv - mean), den |-> 2 * sd * sd]

\* np.ones(shape = x.shape) * v at one point
Ones(v) == [kind |-> "const", amp |-> v, num |-> 0, den |-> 1]

\* the check of n_gauss: n != int((len(params) - 1) / 3)
n_gauss_mismatch(ps, n) == n # IntTrunc(Len(ps) - 1, 3)

\* the error n_gauss raises, None when it returns
n_gauss_raises(ps, n) ==
  IF n_gauss_mismatch(ps, n) THEN "ValueError"
  ELSE IF Len(ps) = 0 THEN "IndexError"     \* params[-1] of an empty params
  ELSE NoExc

\* the arguments of the ii-th Gaussian taken at a stride of 1: params[ii:ii+3]
n_gauss_args_stride1(ps, ii) == PySlice(ps, ii, ii + 3)

\* the arguments of the ii-th Gaussian: params[ii*3:(ii*3)+3]
n_gauss_args(ps, ii) == PySlice(ps, ii * 3, ii * 3 + 3)

\* the rows n_gauss returns: n Gaussians, then the constant params[-1]
n_gauss(xs, ps, n) ==
  [r \in 1..(n + 1) |->
     IF r <= n
     THEN LET a == n_gauss_args(ps, r - 1)
          IN [k \in 1..Len(xs) |-> gaussian(xs[k], a[1], a[2], a[3])]
     ELSE [k \in 1..Len(xs) |-> Ones(At(ps, Len(ps) - 1))]]

\* results.sum(axis = 0): at each x the sum of the rows' terms, in row order
SumAxis0(rows, len) ==
  [k \in 1..len |-> [r \in 1..Len(rows) |-> rows[r][k]]]

\* -------------------------------------------------- rqpy/core/_utils.py
\* _bindata(arr, xrange, bins): centers, counts and edges of the histogram
bindata(a) ==
  [x |-> Centers,
   y |-> [i \in 1..NBins |-> Cardinality({j \in 1..Len(a) : a[j] = Centers[i]})],
   bins |-> [i \in 1..(NBins + 1) |-> 2 * (i - 1)]]

\* --------------------------------------------------- rqpy/core/_fitting.py
\* the real number sqrt(c), kept exactly as its radicand
Sqrt(c) == [sqrt |-> c]

\* yerr = np.sqrt(y): a new array holding the square root of every count
NpSqrt(ys) == [i \in 1..Len(ys) |-> Sqrt(ys[i])]

\* the errors left as the square roots, empty bins keeping the error 0
FloorEmpty_skipped(errs) == errs

\* yerr[yerr == 0] = 1: sqrt(c) = 0 exactly when c = 0, and 1 = sqrt(1)
FloorEmpty(errs) ==
  [i \in 1..Len(errs) |-> IF errs[i].sqrt = 0 THEN Sqrt(1) ELSE errs[i]]

\* the arrays after lines 80-82 / 145-147: the counts and their errors
BinAndErrors(a) ==
  LET b == bindata(a)
  IN [x |-> b.x, y |-> b.y, bins |-> b.bins, yerr |-> FloorEmpty(NpSqrt(b.y))]

\* a numpy value is an array or a scalar
Array(s) == [kind |-> "array", v |-> s]
Scalar(v) == [kind |-> "scalar", v |-> v]

\* the number of entries of s smaller than s[i], or equal and before it:
\* the 0-based place of s[i] in the stably sorted s
PlaceOf(s, i) ==
  Cardinality({j \in 1..Len(s) : s[j] < s[i] \/ (s[j] = s[i] /\ j < i)})

\* the 0-based indices that sort the sequence s
ArgSortSeq(s) ==
  [k \in 1..Len(s) |-> (CHOOSE i \in 1..Len(s) : PlaceOf(s, i) = k - 1) - 1]

\* a.argsort(): a scalar sorts as a one-element array
NpArgsort(a) ==
  IF a.kind = "scalar" THEN Array(<<0>>) ELSE Array(ArgSortSeq(a.v))

\* a[idx] for an index array idx: a scalar cannot be indexed
NpTake(a, idx) ==
  IF a.kind = "scalar" THEN [kind |-> "IndexError", v |-> <<>>]
  ELSE Array([k \in 1..Len(idx.v) |-> At(a.v, idx.v[k])])

\* the check of line 72 with the quotient truncated to an integer
fit_multi_gauss_mismatch_int(g, n) == n # IntTrunc(Len(g) - 1, 3)

\* the check of fit_multi_gauss: ngauss != (len(guess) - 1) / 3, the quotient
\* being the exact rational (Python 3 true division)
fit_multi_gauss_mismatch(g, n) == ~RatEq(Rat(n, 1), Rat(Len(g) - 1, 3))

\* fit_n_gauss(x, *params) = n_gauss(x, params, ngauss).sum(axis = 0)
fit_n_gauss(xs, ps, n) == SumAxis0(n_gauss(xs, ps, n), Len(xs))

\* lines 88-96: the locals after the slicing, and the outcome of the sorting
fmg_extract(fp) ==
  LET peaks1 == Array(PySliceStep(fp, 1, -1, 3))
      amps1  == Array(PySliceStep(fp, 0, -1, 3))
      stds1  == Array(PySliceStep(fp, 2, -1, 3))
      peaks2 == stds1
      background_fit == Scalar(At(fp, Len(fp) - 1))
      peaks3 == background_fit
      peakssort == NpArgsort(peaks3)
      peaks == NpTake(peaks3, peakssort)
      amps  == NpTake(amps1, peakssort)
      stds  == NpTake(stds1, peakssort)
  IN IF peaks.kind = "IndexError"
     THEN [raises |-> "IndexError", value |-> None]
     ELSE [raises |-> NoExc,
           value |-> Some([peaks |-> peaks.v, amps |-> amps.v, stds |-> stds.v,
                           background_fit |-> background_fit.v])]

\* the outcomes of scipy.optimize.curve_fit for a start vector of length L:
\* a best-fit vector of that length, or an error of the optimizer
CurveFitResults(L) == ParamVecs(L)

Init ==
  /\ pc = "idle" /\ fn = "none"
  /\ arr = None /\ guess = None /\ ngauss = 0 /\ params = None
  /\ noiserange = None /\ lgcplot = FALSE
  /\ x = None /\ y = None /\ yerr = None /\ win = None /\ background = None /\ y_noback = None
  /\ p0 = None /\ fitcall = None /\ fitparams = None /\ fitmodel = None
  /\ plots = 0 /\ ret = None /\ raised = NoExc
  /\ pargs = None /\ labeldict = None /\ labels = None /\ relabelled = FALSE
  /\ drawn = <<>> /\ cuteff = None /\ cutefftot = None /\ norm = "none"

\* n_gauss(x, params, n) called directly, x being the bin centers
Call_n_gauss ==
  /\ pc = "idle"
  /\ \E ps \in ParamsVals, n \in NVals :
       /\ fn' = "n_gauss" /\ params' = ps /\ ngauss' = n /\ x' = Centers
       /\ raised' = n_gauss_raises(ps, n)
       /\ ret' = IF n_gauss_raises(ps, n) = NoExc
                 THEN Some(n_gauss(Centers, ps, n)) ELSE None
  /\ pc' = "done"
  /\ UNCHANGED <<arr, guess, noiserange, lgcplot, y, yerr, win, background, y_noback, p0,
                 fitcall, fitparams, fitmodel, plots>>
  /\ UNCHANGED plotvars

\* fit_multi_gauss(arr, guess, ngauss, xrange, lgcplot): entry and lines 72-73
Call_fit_multi_gauss ==
  /\ pc = "idle"
  /\ \E a \in Arrs, g \in Guesses, n \in NGaussVals, lp \in BOOLEAN :
       /\ fn' = "fit_multi_gauss"
       /\ arr' = a /\ guess' = g /\ ngauss' = n /\ lgcplot' = lp
       /\ IF fit_multi_gauss_mismatch(g, n)
          THEN raised' = "ValueError" /\ pc' = "done"
          ELSE raised' = NoExc /\ pc' = "fmg_bin"
  /\ UNCHANGED <<params, noiserange, x, y, yerr, win, background, y_noback, p0, fitcall,
                 fitparams, fitmodel, plots, ret>>
  /\ UNCHANGED plotvars

\* lines 80-82
fmg_bin ==
  /\ pc = "fmg_bin"
  /\ LET b == BinAndErrors(arr)
     IN x' = b.x /\ y' = b.y /\ yerr' = b.yerr
  /\ pc' = "fmg_fit"
  /\ UNCHANGED <<fn, arr, guess, ngauss, params, noiserange, lgcplot,
                 win, background, y_noback, p0, fitcall, fitparams, fitmodel, plots, ret,
                 raised>>
  /\ UNCHANGED plotvars

\* the fit writing its result into the start vector: guess[:] = fitparams
fmg_fit_inplace ==
  /\ pc = "fmg_fit"
  /\ fitcall' = Some([f |-> "fit_n_gauss", x |-> x, y |-> AsReal(y),
                       p0 |-> guess, sigma |-> yerr])
  /\ \/ /\ raised' = "OptimizeError" /\ pc' = "done"
        /\ UNCHANGED <<fitparams, fitmodel, guess>>
     \/ \E fp \in CurveFitResults(Len(guess)) :
          /\ fitparams' = fp /\ guess' = fp
          /\ fitmodel' = fit_n_gauss(x, fp, ngauss)
          /\ pc' = "fmg_extract"
          /\ UNCHANGED raised
  /\ UNCHANGED <<fn, arr, ngauss, params, noiserange, lgcplot,
                 x, y, yerr, win, background, y_noback, p0, plots, ret>>
  /\ UNCHANGED plotvars

\* line 85: curve_fit(fit_n_gauss, x, y, guess, sigma = yerr)
fmg_fit ==
  /\ pc = "fmg_fit"
  /\ fitcall' = Some([f |-> "fit_n_gauss", x |-> x, y |-> AsReal(y),
                       p0 |-> guess, sigma |-> yerr])
  /\ \/ /\ raised' = "OptimizeError" /\ pc' = "done"
        /\ UNCHANGED <<fitparams, fitmodel>>
     \/ \E fp \in CurveFitResults(Len(guess)) :
          /\ fitparams' = fp
          /\ fitmodel' = fit_n_gauss(x, fp, ngauss)
          /\ pc' = "fmg_extract"
          /\ UNCHANGED raised
  /\ UNCHANGED <<fn, arr, guess, ngauss, params, noiserange, lgcplot,
                 x, y, yerr, win, background, y_noback, p0, plots, ret>>
  /\ UNCHANGED plotvars

\* lines 86-105: extraction, sorting, the optional plot and the return
fmg_finish ==
  /\ pc = "fmg_extract"
  /\ LET e == fmg_extract(fitparams)
     IN IF e.raises # NoExc
        THEN raised' = e.raises /\ UNCHANGED <<plots, ret>>
        ELSE /\ plots' = IF lgcplot THEN plots + 1 ELSE plots
             /\ ret' = e.value
             /\ UNCHANGED raised
  /\ pc' = "done"
  /\ UNCHANGED <<fn, arr, guess, ngauss, params, noiserange, lgcplot,
                 x, y, yerr, win, background, y_noback, p0, fitcall, fitparams, fitmodel>>
  /\ UNCHANGED plotvars

\* lines 149-158: the window edges; clowl stays unbound (None) when the lower
\* window starts below the fit range, where the code assigns clow instead
fg_edges(nr) ==
  [clowl  |-> IF nr[1][1] >= xrange[1] THEN Some(nr[1][1]) ELSE None,
   clowh  |-> nr[1][2],
   chighl |-> nr[2][1],
   chighh |-> IF nr[2][2] <= xrange[2] THEN nr[2][2] ELSE xrange[2]]

\* lines 159-162: the bin indices of the window edges
fg_indices(xs, e) ==
  [indlowl  |-> NearestBin(xs, e.clowl[1]),
   indlowh  |-> NearestBin(xs, e.clowh),
   indhighl |-> NearestBin(xs, e.chighl),
   indhighh |-> NearestBin(xs, e.chighh) - 1]

\* line 163: the mean of the counts of the two windows
fg_mean(ys, ind) ==
  NpMean(PySlice(ys, ind.indlowl, ind.indlowh) \o
         PySlice(ys, ind.indhighl, ind.indhighh))

\* lines 148-165: the background estimate, or the error raised on the way
fg_background(nr, xs, ys) ==
  IF nr = None
  THEN [raises |-> NoExc, win |-> None, background |-> Some(Rat(0, 1))]
  ELSE LET e == fg_edges(nr)
       IN IF e.clowl = None
          THEN [raises |-> "UnboundLocalError", win |-> None, background |-> None]
          ELSE LET ind == fg_indices(xs, e)
               IN [raises |-> NoExc,
                   win |-> Some([clowl |-> e.clowl[1], clowh |-> e.clowh,
                                 chighl |-> e.chighl, chighh |-> e.chighh,
                                 indlowl |-> ind.indlowl, indlowh |-> ind.indlowh,
                                 indhighl |-> ind.indhighl,
                                 indhighh |-> ind.indhighh]),
                   background |-> Some(fg_mean(ys, ind))]

\* line 166: y_noback = y - background, a new array
fg_subtract(ys, bg) ==
  IF IsNaN(bg) THEN RealArray(0, [i \in 1..Len(ys) |-> 0])
  ELSE RealArray(bg.den, [i \in 1..Len(ys) |-> ys[i] * bg.den - bg.num])

\* the distance to the full maximum: np.abs(y_noback - np.max(y_noback))
fg_abs_half_full(ynb) ==
  IF ynb.den = 0 THEN ynb
  ELSE RealArray(ynb.den,
                 [i \in 1..Len(ynb.num) |->
                    Abs(ynb.num[i] - At(ynb.num, ArgmaxFirst(ynb.num)))])

\* np.abs(y_noback - np.max(y_noback)/2)
fg_abs_half(ynb) ==
  IF ynb.den = 0 THEN ynb
  ELSE RealArray(2 * ynb.den,
                 [i \in 1..Len(ynb.num) |->
                    Abs(2 * ynb.num[i] - At(ynb.num, ArgmaxFirst(ynb.num)))])

\* lines 168-171: the starting values of the fit
fg_guess(xs, ynb, bg) ==
  LET mu0 == At(xs, NpArgmax(ynb))
  IN [A0 |-> NpMax(ynb),
      mu0 |-> mu0,
      sig0 |-> Abs(mu0 - At(xs, NpArgmin(fg_abs_half(ynb)))),
      background |-> bg]

\* the fit run on the background-subtracted counts
fg_fit_data_noback(ys, ynb) == ynb

\* line 173: the data handed to curve_fit are y
fg_fit_data(ys, ynb) == AsReal(ys)

\* fit_gauss(arr, xrange, noiserange, lgcplot): entry
Call_fit_gauss ==
  /\ pc = "idle"
  /\ \E a \in Arrs, nr \in NoiseRanges, lp \in BOOLEAN :
       /\ fn' = "fit_gauss"
       /\ arr' = a /\ noiserange' = nr /\ lgcplot' = lp
  /\ pc' = "fg_bin"
  /\ UNCHANGED <<guess, ngauss, params, x, y, yerr, win, background, y_noback,
                 p0, fitcall, fitparams, fitmodel, plots, ret, raised>>
  /\ UNCHANGED plotvars

\* lines 145-147
fg_bin ==
  /\ pc = "fg_bin"
  /\ LET b == BinAndErrors(arr)
     IN x' = b.x /\ y' = b.y /\ yerr' = b.yerr
  /\ pc' = "fg_background"
  /\ UNCHANGED <<fn, arr, guess, ngauss, params, noiserange, lgcplot,
                 win, background, y_noback, p0, fitcall, fitparams, fitmodel,
                 plots, ret, raised>>
  /\ UNCHANGED plotvars

\* lines 148-165
fg_estimate ==
  /\ pc = "fg_background"
  /\ LET b == fg_background(noiserange, x, y)
     IN /\ win' = b.win /\ background' = b.background /\ raised' = b.raises
        /\ pc' = IF b.raises = NoExc THEN "fg_guess" ELSE "done"
  /\ UNCHANGED <<fn, arr, guess, ngauss, params, noiserange, lgcplot,
                 x, y, yerr, y_noback, p0, fitcall, fitparams, fitmodel,
                 plots, ret>>
  /\ UNCHANGED plotvars

\* lines 166-171
fg_start ==
  /\ pc = "fg_guess"
  /\ LET ynb == fg_subtract(y, background[1])
     IN /\ y_noback' = ynb
        /\ p0' = Some(fg_guess(x, ynb, background[1]))
  /\ pc' = "fg_fit"
  /\ UNCHANGED <<fn, arr, guess, ngauss, params, noiserange, lgcplot,
                 x, y, yerr, win, background, fitcall, fitparams, fitmodel,
                 plots, ret, raised>>
  /\ UNCHANGED plotvars

\* line 173: curve_fit(gaussian_background, x, y, p0, sigma = yerr)
fg_fit ==
  /\ pc = "fg_fit"
  /\ fitcall' = Some([f |-> "gaussian_background", x |-> x,
                      y |-> fg_fit_data(y, y_noback), p0 |-> p0[1],
                      sigma |-> yerr])
  /\ \/ /\ raised' = "OptimizeError" /\ pc' = "done"
        /\ UNCHANGED fitparams
     \/ \E fp \in CurveFitResults(4) :
          /\ fitparams' = fp
          /\ pc' = "fg_finish"
          /\ UNCHANGED raised
  /\ UNCHANGED <<fn, arr, guess, ngauss, params, noiserange, lgcplot,
                 x, y, yerr, win, background, y_noback, p0, fitmodel, plots, ret>>
  /\ UNCHANGED plotvars

\* the plot rendered whatever lgcplot is
fg_finish_always_plots ==
  /\ pc = "fg_finish"
  /\ plots' = plots + 1
  /\ ret' = Some([peakloc |-> At(fitparams, 1),
                  peakerr |-> [sd |-> At(fitparams, 2), amp |-> Sqrt(At(fitparams, 0))],
                  fitparams |-> fitparams])
  /\ pc' = "done"
  /\ UNCHANGED <<fn, arr, guess, ngauss, params, noiserange, lgcplot,
                 x, y, yerr, win, background, y_noback, p0, fitcall, fitparams,
                 fitmodel, raised>>
  /\ UNCHANGED plotvars

\* lines 174-181: the peak location and its error, the optional plot, the return
fg_finish ==
  /\ pc = "fg_finish"
  /\ plots' = IF lgcplot THEN plots + 1 ELSE plots
  /\ ret' = Some([peakloc |-> At(fitparams, 1),
                  peakerr |-> [sd |-> At(fitparams, 2), amp |-> Sqrt(At(fitparams, 0))],
                  fitparams |-> fitparams])
  /\ pc' = "done"
  /\ UNCHANGED <<fn, arr, guess, ngauss, params, noiserange, lgcplot,
                 x, y, yerr, win, background, y_noback, p0, fitcall, fitparams,
                 fitmodel, raised>>
  /\ UNCHANGED plotvars

\* the call is over: the caller holds the result or the error, the locals die
Return ==
  /\ pc = "done"
  /\ pc' = "idle" /\ fn' = "none"
  /\ arr' = None /\ guess' = None /\ ngauss' = 0 /\ params' = None
  /\ noiserange' = None /\ lgcplot' = FALSE
  /\ x' = None /\ y' = None /\ yerr' = None /\ win' = None /\ background' = None /\ y_noback' = None
  /\ p0' = None /\ fitcall' = None /\ fitparams' = None /\ fitmodel' = None
  /\ plots' = 0 /\ ret' = None /\ raised' = NoExc
  /\ UNCHANGED plotvars

Next ==
  \/ Call_n_gauss
  \/ Call_fit_multi_gauss
  \/ fmg_bin
  \/ fmg_fit
  \/ fmg_finish
  \/ Call_fit_gauss
  \/ fg_bin
  \/ fg_estimate
  \/ fg_start
  \/ fg_fit
  \/ fg_finish
  \/ Return

Spec == Init /\ [][Next]_vars

\* ======================================================= rqpy/plotting
\* ---------------------------------------------------------------- bounds
\* largest number of entries of the data handed to a plotting function
MaxData == 2

\* ----------------------------------------------------------- value domains
\* the data of a histogram: every sequence of values 1..MaxVal
HistArrs == UNION {[1..n -> 1..MaxVal] : n \in 0..MaxData}

\* cutold / cutnew: None or a boolean mask as long as the data
CutVals(n) == {None} \cup {Some(m) : m \in [1..n -> BOOLEAN]}

\* nbins: the default 'sqrt' or a number of bins
sqrt_rule == [kind |-> "sqrt"]
NbinsVals == {sqrt_rule, [kind |-> "int", n |-> 2]}

\* limits are held in half units, so that the padded range of a single
\* value, (v - 0.5, v + 0.5), stays integral
Half(v) == 2 * v
LimVals == {None, Some(<<Half(0), Half(2)>>)}

\* a dict with string keys, from the set of its (key, value) pairs
DictOf(pairs) ==
  [k \in {p[1] : p \in pairs} |-> (CHOOSE p \in pairs : p[1] = k)[2]]

\* labeldict: None, or a dict that overrides some labels
LabelDicts ==
  {None,
   Some(DictOf({<<"title", "my title">>})),
   Some(DictOf({<<"xlabel", "my x">>, <<"cutnew", "mine">>}))}

\* labeldict of the functions that plot a fit: also the label of a peak and
\* the width of the error band
FitLabelDicts ==
  LabelDicts \cup {Some(DictOf({<<"peak1", "my peak">>, <<"nsigma", "3">>}))}

\* ax: None, or the Axes of the caller
AxVals == {None, Some("ax")}

\* ------------------------------------------------------------------ labels
\* f'peak{ii+1}' and f'Peak{ii+1}'
PeakKey(i) == <<"peak1", "peak2", "peak3", "peak4">>[i]
PeakLabel(i) == <<"Peak1", "Peak2", "Peak3", "Peak4">>[i]

\* the dict literal that each function builds at its start (for
\* plot_n_gauss with the loop over the n peaks)
DefaultLabels(f, n) ==
  CASE f = "hist" ->
         DictOf({<<"title", "Histogram">>, <<"xlabel", "variable">>,
                 <<"ylabel", "Count">>, <<"cutnew", "current">>,
                 <<"cutold", "previous">>})
    [] f = "scatter" ->
         DictOf({<<"title", "Scatter Plot">>, <<"xlabel", "x variable">>,
                 <<"ylabel", "y variable">>, <<"cutnew", "current">>,
                 <<"cutold", "previous">>})
    [] f = "densityplot" ->
         DictOf({<<"title", "Density Plot">>, <<"xlabel", "x variable">>,
                 <<"ylabel", "y variable">>})
    [] f = "plot_gauss" ->
         DictOf({<<"title", "Gaussian Fit">>, <<"xlabel", "x variable">>,
                 <<"ylabel", "Count">>})
    [] f = "plot_n_gauss" ->
         DictOf({<<"title", "Gaussian Fit">>, <<"xlabel", "x variable">>,
                 <<"ylabel", "Count">>}
                \cup {<<PeakKey(i), PeakLabel(i)>> : i \in 1..n})
    [] f = "plot_saturation_correction" ->
         DictOf({<<"title", "Energy Saturation Correction">>,
                 <<"xlabel", "True Energy [eV]">>,
                 <<"ylabel", "Measured Energy [eV]">>, <<"nsigma", "2">>})

\* the assignment written the other way round: labeldict[key] = labels[key]
LabelLoop_reversed(lbls, ld) ==
  IF ld = None THEN [labels |-> lbls, labeldict |-> ld]
  ELSE [labels |-> lbls,
        labeldict |-> Some([k \in DOMAIN ld[1] |->
                              IF k \in DOMAIN lbls THEN lbls[k] ELSE ld[1][k]])]

\* if labeldict is not None: for key in labeldict: labels[key] = labeldict[key]
\* the two dicts after the loop
LabelLoop(lbls, ld) ==
  IF ld = None THEN [labels |-> lbls, labeldict |-> ld]
  ELSE [labels |-> [k \in DOMAIN lbls \cup DOMAIN ld[1] |->
                      IF k \in DOMAIN ld[1] THEN ld[1][k] ELSE lbls[k]],
        labeldict |-> ld]

\* if ax is None: fig, ax = plt.subplots(...) else: fig = None
FigOf(ax) == IF ax = None THEN Some("fig") ELSE None
AxOf(ax) == IF ax = None THEN Some("new ax") ELSE ax

\* ------------------------------------------------------------ boolean masks
\* mask.sum()
MaskSum(m) == Cardinality({i \in 1..Len(m) : m[i]})
\* a & b and ~a
MaskAnd(a, b) == [i \in 1..Len(a) |-> a[i] /\ b[i]]
MaskNot(a) == [i \in 1..Len(a) |-> ~a[i]]
\* np.ones(len(v), dtype=bool)
MaskOnes(n) == [i \in 1..n |-> TRUE]
\* the indices (1-based) that a mask selects
Selected(m) == {i \in 1..Len(m) : m[i]}

\* s[mask]: the entries of s that the mask selects, in order
RECURSIVE TakeFrom(_, _, _)
TakeFrom(s, m, i) ==
  IF i > Len(s) THEN <<>>
  ELSE (IF m[i] THEN <<s[i]>> ELSE <<>>) \o TakeFrom(s, m, i + 1)

Take(s, m) == TakeFrom(s, m, 1)

SeqMin(s) == CHOOSE v \in Range(s) : \A w \in Range(s) : v <= w
SeqMax(s) == CHOOSE v \in Range(s) : \A w \in Range(s) : v >= w

\* ------------------------------------------------- ax.hist / np.histogram
\* equally spaced bin edges: n bins from lo to hi (half units)
Edges(l, h, k) == [lo |-> l, hi |-> h, n |-> k]

\* the outer edges: the given range, else the range of the data, (0, 1) for
\* no data; a range of zero width is padded by 0.5 on both sides
OuterEdges(data, rng) ==
  LET r == IF rng # None THEN rng[1]
           ELSE IF data = <<>> THEN <<Half(0), Half(1)>>
           ELSE <<Half(SeqMin(data)), Half(SeqMax(data))>>
  IN IF r[1] = r[2] THEN <<r[1] - 1, r[2] + 1>> ELSE r

\* the data inside the outer edges
InRange(data, e) == SelectSeq(data, LAMBDA v : Half(v) >= e[1] /\ Half(v) <= e[2])

\* bins = 'sqrt': ceil((last - first) / (ptp / sqrt(size))) bins, one bin
\* for no data or for data of zero spread
SqrtBins(data, e) ==
  LET a == InRange(data, e)
  IN IF a = <<>> THEN 1
     ELSE LET ptp == Half(SeqMax(a)) - Half(SeqMin(a))
              w == e[2] - e[1]
          IN IF ptp = 0 THEN 1
             ELSE CHOOSE k \in 1..(w * Len(a)) :
                    /\ k * k * ptp * ptp >= w * w * Len(a)
                    /\ \A j \in 1..(k - 1) : j * j * ptp * ptp < w * w * Len(a)

\* the bin edges of ax.hist(data, bins=nbins, range=rng): an array of edges
\* given as bins is used as it is, and the range is then ignored
HistEdges(data, nbins, rng) ==
  IF nbins.kind = "edges" THEN nbins.e
  ELSE LET e == OuterEdges(data, rng)
       IN Edges(e[1], e[2],
                IF nbins.kind = "int" THEN nbins.n ELSE SqrtBins(data, e))

\* ------------------------------------------------------------------- hist
\* lines 82-85: only cutold is given
hist_eff_old(N, cutold) ==
  [cuteff |-> Some(Rat(MaskSum(cutold), N)),
   cutefftot |-> Some(Rat(MaskSum(cutold), N))]

\* the current cut counted on its own: newsum/oldsum
hist_eff_both_newsum(N, cutold, cutnew) ==
  [cuteff |-> Some(Rat(MaskSum(cutnew), MaskSum(cutold))),
   cutefftot |-> Some(Rat(MaskSum(MaskAnd(cutnew, cutold)), N))]

\* lines 99-102: both cuts are given; cutnew = cutnew & cutold
hist_eff_both(N, cutold, cutnew) ==
  [cuteff |-> Some(Rat(MaskSum(MaskAnd(cutnew, cutold)), MaskSum(cutold))),
   cutefftot |-> Some(Rat(MaskSum(MaskAnd(cutnew, cutold)), N))]

\* lines 103-105: only cutnew is given
hist_eff_new(N, cutnew) ==
  [cuteff |-> Some(Rat(MaskSum(cutnew), N)),
   cutefftot |-> Some(Rat(MaskSum(cutnew), N))]

\* lines 118-120: no cut is given
hist_eff_none ==
  [cuteff |-> Some(Rat(1, 1)), cutefftot |-> Some(Rat(1, 1))]

\* the two efficiencies as the branches of lines 81-120 leave them; a name
\* that no branch assigns stays unbound (None)
hist_eff(N, cutold, cutnew) ==
  LET first == IF cutold # None /\ cutnew = None
               THEN hist_eff_old(N, cutold[1])
               ELSE [cuteff |-> None, cutefftot |-> None]
  IN IF cutnew # None
     THEN IF cutold # None THEN hist_eff_both(N, cutold[1], cutnew[1])
          ELSE hist_eff_new(N, cutnew[1])
     ELSE IF cutnew = None /\ cutold = None THEN hist_eff_none
     ELSE first

\* lines 73-117: the histograms drawn, in order, each with its bin edges
hist_draw(a) ==
  LET raw    == HistEdges(a.arr, a.nbins, a.xlims)
      xlims1 == IF a.lgcrawdata /\ a.xlims = None
                THEN Some(<<raw.lo, raw.hi>>) ELSE a.xlims
      nbins1 == IF a.lgcrawdata THEN [kind |-> "edges", e |-> raw] ELSE a.nbins
      old    == HistEdges(Take(a.arr, a.cutold[1]), nbins1, xlims1)
      xlims2 == IF a.cutold # None /\ xlims1 = None
                THEN Some(<<old.lo, old.hi>>) ELSE xlims1
      cutnew1 == IF a.cutold # None THEN MaskAnd(a.cutnew[1], a.cutold[1])
                 ELSE a.cutnew[1]
      new    == HistEdges(Take(a.arr, cutnew1), nbins1, xlims2)
  IN (IF a.lgcrawdata
      THEN <<[label |-> "Full data", sel |-> Selected(MaskOnes(Len(a.arr))),
              edges |-> raw]>>
      ELSE <<>>)
     \o (IF a.cutold # None
         THEN <<[label |-> "cutold", sel |-> Selected(a.cutold[1]), edges |-> old]>>
         ELSE <<>>)
     \o (IF a.cutnew # None
         THEN <<[label |-> "cutnew", sel |-> Selected(cutnew1), edges |-> new]>>
         ELSE <<>>)

\* lines 127-128: the legend entry of the total efficiency reads cutefftot
LegendRaises(lgceff, tot) ==
  IF lgceff /\ tot = None THEN "UnboundLocalError" ELSE NoExc

\* the value returned: (fig, ax)
FigAx(ax) == Some([fig |-> FigOf(ax), ax |-> AxOf(ax)])

\* hist(arr, nbins, xlims, cutold, cutnew, lgcrawdata, lgceff, lgclegend,
\* labeldict, ax), lines 11-131
Call_hist ==
  /\ pc = "idle"
  /\ \E d \in HistArrs, nb \in NbinsVals, xl \in LimVals, raw \in BOOLEAN,
        le \in BOOLEAN, ld \in LabelDicts, axin \in AxVals :
       \E co \in CutVals(Len(d)), cn \in CutVals(Len(d)) :
         LET a == [arr |-> d, nbins |-> nb, xlims |-> xl, cutold |-> co,
                   cutnew |-> cn, lgcrawdata |-> raw, lgceff |-> le,
                   labeldict |-> ld, ax |-> axin]
             l == LabelLoop(DefaultLabels("hist", 0), ld)
             e == hist_eff(Len(d), co, cn)
             exc == LegendRaises(le, e.cutefftot)
         IN /\ pargs' = Some(a)
            /\ labels' = Some(l.labels) /\ labeldict' = l.labeldict
            /\ drawn' = hist_draw(a)
            /\ cuteff' = e.cuteff /\ cutefftot' = e.cutefftot
            /\ raised' = exc
            /\ ret' = IF exc = NoExc THEN FigAx(axin) ELSE None
  /\ fn' = "hist" /\ pc' = "plotted"
  /\ UNCHANGED <<relabelled, norm>>
  /\ UNCHANGED fitvars

\* ---------------------------------------------------------------- scatter
\* the coordinates of the points of a scatter plot: on the lower limit (0)
\* or inside the limits (1)
ScatterVals(n) == [1..n -> {0, 1}]

\* lines 205-208: (vals > lims[0]) & (vals < lims[1]), or all True
LimitCut(vals, lims) ==
  IF lims # None
  THEN [i \in 1..Len(vals) |-> Half(vals[i]) > lims[1][1] /\ Half(vals[i]) < lims[1][2]]
  ELSE MaskOnes(Len(vals))

\* lines 227-230: only cutold is given
scatter_eff_old(N, cutold) ==
  [cuteff |-> Some(Rat(MaskSum(cutold), N)),
   cutefftot |-> Some(Rat(MaskSum(cutold), N))]

\* lines 242-245: both cuts are given; cutnew = cutnew & cutold
scatter_eff_both(N, cutold, cutnew) ==
  [cuteff |-> Some(Rat(MaskSum(MaskAnd(cutnew, cutold)), MaskSum(cutold))),
   cutefftot |-> Some(Rat(MaskSum(MaskAnd(cutnew, cutold)), N))]

\* lines 246-248: only cutnew is given
scatter_eff_new(N, cutnew) ==
  [cuteff |-> Some(Rat(MaskSum(cutnew), N)),
   cutefftot |-> Some(Rat(MaskSum(cutnew), N))]

\* the branch of lines 258-260 left out: nothing is assigned without a cut
scatter_eff_none_missing == [cuteff |-> None, cutefftot |-> None]

\* lines 258-260: no cut is given
scatter_eff_none ==
  [cuteff |-> Some(Rat(1, 1)), cutefftot |-> Some(Rat(1, 1))]

\* the two efficiencies as the branches of lines 226-260 leave them; a name
\* that no branch assigns stays unbound (None)
scatter_eff(N, cutold, cutnew) ==
  LET first == IF cutold # None /\ cutnew = None
               THEN scatter_eff_old(N, cutold[1])
               ELSE [cuteff |-> None, cutefftot |-> None]
  IN IF cutnew # None
     THEN IF cutold # None THEN scatter_eff_both(N, cutold[1], cutnew[1])
          ELSE scatter_eff_new(N, cutnew[1])
     ELSE IF cutnew = None /\ cutold = None THEN scatter_eff_none
     ELSE first

\* lines 216-224: the points labelled 'Full Data', drawn in blue
scatter_blue(a, limitcut) ==
  IF a.lgcrawdata /\ a.cutold # None
  THEN <<[c |-> "b", sel |-> Selected(MaskAnd(limitcut, MaskNot(a.cutold[1])))]>>
  ELSE IF a.lgcrawdata /\ a.cutnew # None
  THEN <<[c |-> "b", sel |-> Selected(MaskAnd(limitcut, MaskNot(a.cutnew[1])))]>>
  ELSE IF a.lgcrawdata
  THEN <<[c |-> "b", sel |-> Selected(limitcut)]>>
  ELSE <<>>

\* the points passing the previous cut drawn whether or not they pass the
\* current one
scatter_red_all(a, limitcut) ==
  IF a.cutold = None THEN <<>>
  ELSE <<[c |-> "r", sel |-> Selected(MaskAnd(a.cutold[1], limitcut))]>>

\* lines 232-238: the points passing the previous cut, drawn in red
scatter_red(a, limitcut) ==
  IF a.cutold = None THEN <<>>
  ELSE IF a.cutnew = None
  THEN <<[c |-> "r", sel |-> Selected(MaskAnd(a.cutold[1], limitcut))]>>
  ELSE <<[c |-> "r",
          sel |-> Selected(MaskAnd(MaskAnd(a.cutold[1], limitcut),
                                   MaskNot(a.cutnew[1])))]>>

\* lines 240-256: the points passing the current cut, drawn in green
scatter_green(a, limitcut) ==
  IF a.cutnew = None THEN <<>>
  ELSE LET cutnew1 == IF a.cutold # None
                      THEN MaskAnd(a.cutnew[1], a.cutold[1]) ELSE a.cutnew[1]
       IN <<[c |-> "g", sel |-> Selected(MaskAnd(cutnew1, limitcut))]>>

\* lines 205-256: the point sets drawn, in order
scatter_draw(a) ==
  LET limitcut == MaskAnd(LimitCut(a.xvals, a.xlims), LimitCut(a.yvals, a.ylims))
  IN scatter_blue(a, limitcut) \o scatter_red(a, limitcut)
     \o scatter_green(a, limitcut)

\* lines 262-272 and 275-285: without limits the axis range comes from
\* vals.max() and vals.min() of the raw data or of the data passing a cut,
\* which raise ValueError on an empty array
AxisRaises(vals, lims, a) ==
  IF lims # None THEN NoExc
  ELSE LET used == IF a.lgcrawdata THEN Some(vals)
                   ELSE IF a.cutold # None THEN Some(Take(vals, a.cutold[1]))
                   ELSE IF a.cutnew # None THEN Some(Take(vals, a.cutnew[1]))
                   ELSE None
       IN IF used # None /\ used[1] = <<>> THEN "ValueError" ELSE NoExc

\* scatter(xvals, yvals, xlims, ylims, cutold, cutnew, lgcrawdata, lgceff,
\* lgclegend, labeldict, ms, a, ax), lines 136-299
Call_scatter ==
  /\ pc = "idle"
  /\ \E n \in 0..MaxData, xl \in LimVals, yl \in LimVals, raw \in BOOLEAN,
        le \in BOOLEAN, ld \in LabelDicts :
       \E xs \in ScatterVals(n), ys \in ScatterVals(n),
          co \in CutVals(n), cn \in CutVals(n) :
         LET a == [xvals |-> xs, yvals |-> ys, xlims |-> xl, ylims |-> yl,
                   cutold |-> co, cutnew |-> cn, lgcrawdata |-> raw,
                   lgceff |-> le, labeldict |-> ld, ax |-> None]
             l == LabelLoop(DefaultLabels("scatter", 0), ld)
             e == scatter_eff(n, co, cn)
             exc == IF AxisRaises(xs, xl, a) # NoExc THEN AxisRaises(xs, xl, a)
                    ELSE IF AxisRaises(ys, yl, a) # NoExc THEN AxisRaises(ys, yl, a)
                    ELSE LegendRaises(le, e.cutefftot)
         IN /\ pargs' = Some(a)
            /\ labels' = Some(l.labels) /\ labeldict' = l.labeldict
            /\ drawn' = scatter_draw(a)
            /\ cuteff' = e.cuteff /\ cutefftot' = e.cutefftot
            /\ raised' = exc
            /\ ret' = IF exc = NoExc THEN FigAx(None) ELSE None
  /\ fn' = "scatter" /\ pc' = "plotted"
  /\ UNCHANGED <<relabelled, norm>>
  /\ UNCHANGED fitvars

\* ------------------------------------------------------------ densityplot
\* lines 374-375: norm = colors.LogNorm(), whatever lgclognorm is
densityplot_norm(lgclognorm) == "LogNorm"

\* line 376: fig.colorbar(...), an AttributeError when fig is None
ColorbarRaises(fig) == IF fig = None THEN "AttributeError" ELSE NoExc

\* lines 360-375: the 2-d histogram of the points inside the limits that
\* pass the cut (every point without a cut)
densityplot_draw(a) ==
  LET limitcut == MaskAnd(LimitCut(a.xvals, a.xlims), LimitCut(a.yvals, a.ylims))
      cut == IF a.cut = None THEN MaskOnes(Len(a.xvals)) ELSE a.cut[1]
  IN <<[c |-> "hist2d", sel |-> Selected(MaskAnd(limitcut, cut))]>>

\* densityplot(xvals, yvals, xlims, ylims, nbins, cut, labeldict,
\* lgclognorm, ax), lines 303-383
Call_densityplot ==
  /\ pc = "idle"
  /\ \E n \in 0..MaxData, xl \in LimVals, yl \in LimVals, ln \in BOOLEAN,
        ld \in LabelDicts, axin \in AxVals :
       \E xs \in ScatterVals(n), ys \in ScatterVals(n), ct \in CutVals(n) :
         LET a == [xvals |-> xs, yvals |-> ys, xlims |-> xl, ylims |-> yl,
                   cut |-> ct, lgclognorm |-> ln, labeldict |-> ld, ax |-> axin]
             l == LabelLoop(DefaultLabels("densityplot", 0), ld)
             exc == ColorbarRaises(FigOf(axin))
         IN /\ pargs' = Some(a)
            /\ labels' = Some(l.labels) /\ labeldict' = l.labeldict
            /\ drawn' = densityplot_draw(a)
            /\ norm' = densityplot_norm(ln)
            /\ raised' = exc
            /\ ret' = IF exc = NoExc THEN FigAx(axin) ELSE None
  /\ fn' = "densityplot" /\ pc' = "plotted"
  /\ UNCHANGED <<relabelled, cuteff, cutefftot>>
  /\ UNCHANGED fitvars

\* ------------------------------- plot_gauss, plot_n_gauss, saturation plot
\* the best-fit vectors handed to plot_n_gauss
PlotParams == {Asc(L) : L \in 1..MaxGuessLen}

\* plot_gauss(x, bins, y, fitparams, errors, background, labeldict),
\* lines 385-442; the figure is always new
Call_plot_gauss ==
  /\ pc = "idle"
  /\ \E ld \in FitLabelDicts :
       LET l == LabelLoop(DefaultLabels("plot_gauss", 0), ld)
       IN /\ pargs' = Some([labeldict |-> ld, ax |-> None])
          /\ labels' = Some(l.labels) /\ labeldict' = l.labeldict
          /\ drawn' = <<[label |-> "Raw Data"],
                        [label |-> "Average Background Rate"],
                        [label |-> "Gaussian Fit"]>>
  /\ raised' = NoExc /\ ret' = FigAx(None)
  /\ fn' = "plot_gauss" /\ pc' = "plotted"
  /\ UNCHANGED <<relabelled, cuteff, cutefftot, norm>>
  /\ UNCHANGED fitvars

\* line 472: n = int((len(fitparams)-1)/3)
plot_n_gauss_n(fp) == IntTrunc(Len(fp) - 1, 3)

\* plot_n_gauss(x, y, bins, fitparams, labeldict, ax), lines 444-506: one
\* curve per peak, labelled labels[f'peak{ii+1}']
Call_plot_n_gauss ==
  /\ pc = "idle"
  /\ \E fp \in PlotParams, ld \in FitLabelDicts, axin \in AxVals :
       LET n == plot_n_gauss_n(fp)
           l == LabelLoop(DefaultLabels("plot_n_gauss", n), ld)
       IN /\ pargs' = Some([fitparams |-> fp, labeldict |-> ld, ax |-> axin])
          /\ labels' = Some(l.labels) /\ labeldict' = l.labeldict
          /\ drawn' = <<[label |-> "Raw Data"], [label |-> "Total Fit"]>>
                      \o [i \in 1..n |-> [label |-> l.labels[PeakKey(i)]]]
                      \o <<[label |-> "Background"]>>
          /\ ret' = FigAx(axin)
  /\ raised' = NoExc
  /\ fn' = "plot_n_gauss" /\ pc' = "plotted"
  /\ UNCHANGED <<relabelled, cuteff, cutefftot, norm>>
  /\ UNCHANGED fitvars

\* plot_saturation_correction(x, y, yerr, popt, pcov, labeldict, ax),
\* lines 510-591; n = labels['nsigma'] scales the error bands
Call_plot_saturation_correction ==
  /\ pc = "idle"
  /\ \E ld \in FitLabelDicts, axin \in AxVals :
       LET l == LabelLoop(DefaultLabels("plot_saturation_correction", 0), ld)
       IN /\ pargs' = Some([labeldict |-> ld, ax |-> axin])
          /\ labels' = Some(l.labels) /\ labeldict' = l.labeldict
          /\ drawn' = <<[label |-> "Spectral Peaks"],
                        [label |-> "saturation function", nsigma |-> l.labels["nsigma"]],
                        [label |-> "Taylor expansion", nsigma |-> l.labels["nsigma"]]>>
          /\ ret' = FigAx(axin)
  /\ raised' = NoExc
  /\ fn' = "plot_saturation_correction" /\ pc' = "plotted"
  /\ UNCHANGED <<relabelled, cuteff, cutefftot, norm>>
  /\ UNCHANGED fitvars

\* the plotting call is over: its locals die; relabelled remembers whether
\* the call that has just ended was given a labeldict
PlotReturn ==
  /\ pc = "plotted"
  /\ relabelled' = (pargs[1].labeldict # None)
  /\ pc' = "idle" /\ fn' = "none"
  /\ pargs' = None /\ labeldict' = None /\ labels' = None
  /\ drawn' = <<>> /\ cuteff' = None /\ cutefftot' = None /\ norm' = "none"
  /\ ret' = None /\ raised' = NoExc
  /\ UNCHANGED fitvars

NextPlot ==
  \/ Call_hist
  \/ Call_scatter
  \/ Call_densityplot
  \/ Call_plot_gauss
  \/ Call_plot_n_gauss
  \/ Call_plot_saturation_correction
  \/ PlotReturn

SpecPlot == Init /\ [][NextPlot]_vars

\* ==================================================================== claims
\* a call of fit_multi_gauss whose fit has returned best-fit parameters
FmgFitted == fn = "fit_multi_gauss" /\ pc = "done" /\ fitparams # None

\* the sequence s sorted in increasing order
Sorted(s) == [k \in 1..Len(s) |-> At(s, ArgSortSeq(s)[k])]

\* the permutations of 1..n
Perms(n) == {f \in [1..n -> 1..n] : \A i, j \in 1..n : f[i] = f[j] => i = j}

\* C1: fit_multi_gauss raises a ValueError for every (guess, ngauss) with
\* len(guess) different from 3*ngauss + 1, also when (len(guess) - 1) is not
\* divisible by 3.
C1_MismatchRaises ==
  (fn = "fit_multi_gauss" /\ Len(guess) # 3 * ngauss + 1)
    => (pc = "done" /\ raised = "ValueError" /\ y = None /\ fitcall = None)

\* C1 witness: a rejected guess whose length is 3*ngauss + 2 or 3*ngauss + 3
C1_Witness ==
  /\ fn = "fit_multi_gauss" /\ raised = "ValueError"
  /\ (Len(guess) - 1) % 3 # 0
  /\ ngauss = (Len(guess) - 1) \div 3

\* C2: n_gauss raises a ValueError for every params with
\* len(params) different from 3*n + 1.
C2_NGaussMismatchRaises ==
  (fn = "n_gauss" /\ pc = "done" /\ Len(params) # 3 * ngauss + 1)
    => raised = "ValueError"

\* C3: for every valid guess fit_multi_gauss returns 'peaks' as the fitted
\* means (positions 3i+1 of the best-fit vector) sorted in increasing order.
C3_PeaksSorted ==
  FmgFitted =>
    /\ raised = NoExc /\ ret # None
    /\ ret[1].peaks = Sorted(PySliceStep(fitparams, 1, -1, 3))

\* C4: in the result of fit_multi_gauss (amps[i], peaks[i], stds[i]) is one
\* triple of the best-fit vector for every i, every fitted triple appearing
\* exactly once.
C4_TriplesAligned ==
  FmgFitted =>
    /\ ret # None
    /\ Len(ret[1].peaks) = ngauss /\ Len(ret[1].amps) = ngauss
    /\ Len(ret[1].stds) = ngauss
    /\ \E f \in Perms(ngauss) :
         \A i \in 1..ngauss :
           /\ ret[1].amps[i]  = At(fitparams, 3 * (f[i] - 1))
           /\ ret[1].peaks[i] = At(fitparams, 3 * (f[i] - 1) + 1)
           /\ ret[1].stds[i]  = At(fitparams, 3 * (f[i] - 1) + 2)

\* the counts of the bins lo..hi (0-based, both included)
BinsFromTo(ys, lo, hi) == IF lo > hi THEN <<>> ELSE SubSeq(ys, lo + 1, hi + 1)

\* two means agree: both nan, or the same rational
SameMean(a, b) == (IsNaN(a) /\ IsNaN(b)) \/ RatEq(a, b)

\* the mean of the two windows of nr, each window running from the bin nearest
\* its lower edge to the bin nearest its upper edge, the last bin being left
\* out (incl = 0) or taken in (incl = 1) in both windows alike
WindowMean(nr, xs, ys, incl) ==
  NpMean(BinsFromTo(ys, NearestBin(xs, nr[1][1]),
                        NearestBin(xs, nr[1][2]) - 1 + incl) \o
         BinsFromTo(ys, NearestBin(xs, nr[2][1]),
                        NearestBin(xs, nr[2][2]) - 1 + incl))

\* a call of fit_gauss that is past its background estimation
FgEstimated == fn = "fit_gauss" /\ pc \notin {"fg_bin", "fg_background"}

\* C5: with noiserange inside xrange the background estimate of fit_gauss is
\* the mean of the counts of the two windows, each spanning the bins from the
\* one nearest its lower edge to the one nearest its upper edge, both windows
\* delimited by the same rule.
C5_BackgroundIsWindowMean ==
  (FgEstimated /\ noiserange # None /\ noiserange[1][1] >= xrange[1]
     /\ noiserange[2][2] <= xrange[2])
    => /\ background # None
       /\ \E incl \in {0, 1} :
            SameMean(background[1], WindowMean(noiserange, x, y, incl))

\* C6: the noise windows are clipped to the fit range (the lower window starts
\* at xrange[0] when noiserange[0][0] < xrange[0], the upper window ends at
\* xrange[1] when noiserange[1][1] > xrange[1]) and a background estimate is
\* produced from the clipped windows.
C6_WindowsClipped ==
  (FgEstimated /\ noiserange # None)
    => /\ raised # "UnboundLocalError" /\ win # None /\ background # None
       /\ win[1].clowl = (IF noiserange[1][1] < xrange[1] THEN xrange[1]
                          ELSE noiserange[1][1])
       /\ win[1].chighh = (IF noiserange[2][2] > xrange[2] THEN xrange[2]
                           ELSE noiserange[2][2])

\* C7: the per-bin standard error passed to the fit by fit_gauss and
\* fit_multi_gauss is the square root of the count for a non-empty bin and
\* exactly 1 for an empty bin, never 0, and the counts are not altered.
C7_ErrorsFloored ==
  fitcall # None =>
    LET counts == bindata(arr).y
    IN /\ y = counts
       /\ RealArrayEq(fitcall[1].y, AsReal(counts))
       /\ Len(fitcall[1].sigma) = Len(counts)
       /\ \A i \in 1..Len(counts) :
            /\ fitcall[1].sigma[i].sqrt # 0
            /\ counts[i] > 0 => fitcall[1].sigma[i] = Sqrt(counts[i])
            /\ counts[i] = 0 => fitcall[1].sigma[i] = Sqrt(1)

\* C7 witness: a fit was handed a histogram with an empty bin and a bin of
\* more than one count
C7_Witness ==
  /\ fitcall # None
  /\ \E i, j \in 1..NBins : y[i] = 0 /\ y[j] > 1 /\ fitcall[1].sigma[i] = Sqrt(1)

\* the guess p0 is built from the first largest entry i of y_noback and from
\* bin j: amplitude, mean, background as claimed, sig0 the distance of the
\* centers of the bins i and j
GuessFrom(i, j) ==
  /\ \A k \in 1..NBins : y_noback.num[k] <= y_noback.num[i]
  /\ \A k \in 1..(i - 1) : y_noback.num[k] < y_noback.num[i]
  /\ RatEq(p0[1].A0, Rat(y_noback.num[i], y_noback.den))
  /\ p0[1].mu0 = x[i]
  /\ p0[1].sig0 = Abs(x[i] - x[j])
  /\ p0[1].background = background[1]

\* the distance of the background-subtracted count of bin j to half of the
\* maximum (held by bin i), in units of 1/(2 * den)
HalfGap(i, j) == Abs(2 * y_noback.num[j] - y_noback.num[i])

\* bin j is one of the bins whose count is closest to half of the maximum
AtHalfMax(i, j) == \A k \in 1..NBins : HalfGap(i, j) <= HalfGap(i, k)

\* a guess was built from a numeric background, y_noback being y - background
GuessBuilt ==
  /\ fn = "fit_gauss" /\ p0 # None /\ ~IsNaN(background[1])
  /\ RealArrayEq(y_noback,
                 RealArray(background[1].den,
                           [k \in 1..NBins |->
                              y[k] * background[1].den - background[1].num]))

\* bin j is, among the bins in cand, one nearest to bin i
NearestOf(i, j, cand) ==
  j \in cand /\ \A k \in cand : Abs(x[i] - x[j]) <= Abs(x[i] - x[k])

\* C8 (as stated): the standard deviation of the initial guess is the distance
\* between the bin center of the maximum and the center of the nearest bin at
\* which the background-subtracted counts reach half of the maximum (the
\* nearest of all such bins, or the nearest of those other than the maximum's).
C8_GuessNearestHalfMax ==
  (fn = "fit_gauss" /\ p0 # None /\ ~IsNaN(background[1])) =>
    \E i, j \in 1..NBins :
      /\ GuessFrom(i, j)
      /\ \/ NearestOf(i, j, {k \in 1..NBins : AtHalfMax(i, k)})
         \/ NearestOf(i, j, {k \in 1..NBins : AtHalfMax(i, k) /\ k # i})

\* C8 (amended): amplitude = maximum background-subtracted count, mean = center
\* of the first bin holding it, background = the background estimate, and the
\* standard deviation = distance between that center and the center of the
\* first bin (lowest index) whose background-subtracted count is closest in
\* value to half of the maximum, wherever that bin lies.
C8_GuessFirstHalfMax ==
  (fn = "fit_gauss" /\ p0 # None /\ ~IsNaN(background[1])) =>
    /\ GuessBuilt
    /\ \E i, j \in 1..NBins :
         /\ GuessFrom(i, j)
         /\ AtHalfMax(i, j)
         /\ \A k \in 1..(j - 1) : ~AtHalfMax(i, k)

\* C8 witness: a guess built from a non-zero background whose half-maximum bin
\* is not the bin of that kind nearest to the maximum
C8_Witness ==
  /\ GuessBuilt /\ background[1].num # 0
  /\ \E i, j, k \in 1..NBins :
       /\ GuessFrom(i, j) /\ AtHalfMax(i, j) /\ AtHalfMax(i, k) /\ k # i
       /\ Abs(x[i] - x[k]) < Abs(x[i] - x[j])

\* C9: the data handed to the least-squares fit by fit_gauss are the original,
\* unsubtracted bin counts for every noiserange; the background is subtracted
\* only in the array the guess is built from.
C9_FitsUnsubtracted ==
  (fn = "fit_gauss" /\ fitcall # None) =>
    /\ fitcall[1].f = "gaussian_background"
    /\ RealArrayEq(fitcall[1].y, AsReal(bindata(arr).y))
    /\ fitcall[1].p0 = p0[1]

\* C9 witness: a fit called after a non-zero background was subtracted for
\* the guess
C9_Witness ==
  /\ fn = "fit_gauss" /\ fitcall # None
  /\ ~IsNaN(background[1]) /\ background[1].num # 0
  /\ ~RealArrayEq(y_noback, fitcall[1].y)

\* rows are the n + 1 rows of n_gauss for the parameters ps at the points xs
RowsOf(rows, xs, ps, n) ==
  /\ Len(rows) = n + 1
  /\ \A r \in 1..(n + 1) : Len(rows[r]) = Len(xs)
  /\ \A i \in 0..(n - 1) : \A k \in 1..Len(xs) :
       rows[i + 1][k] = gaussian(xs[k], At(ps, 3 * i), At(ps, 3 * i + 1),
                                 At(ps, 3 * i + 2))
  /\ \A k \in 1..Len(xs) : rows[n + 1][k] = Ones(ps[Len(ps)])

\* C10: n_gauss(x, params, n) with len(params) = 3n + 1 returns n + 1 rows, row
\* i the Gaussian of the triple (params[3i], params[3i+1], params[3i+2]), the
\* last row the constant params[-1]; the fitted model of fit_multi_gauss is
\* the sum of these rows.
C10_RowsAndSum ==
  /\ (fn = "n_gauss" /\ pc = "done" /\ Len(params) = 3 * ngauss + 1)
       => (raised = NoExc /\ ret # None /\ RowsOf(ret[1], x, params, ngauss))
  /\ (fn = "fit_multi_gauss" /\ fitparams # None)
       => /\ Len(fitmodel) = Len(x)
          /\ \E rows \in {n_gauss(x, fitparams, ngauss)} :
               /\ RowsOf(rows, x, fitparams, ngauss)
               /\ \A k \in 1..Len(x) :
                    fitmodel[k] = [r \in 1..(ngauss + 1) |-> rows[r][k]]

\* C10 witness: n_gauss returned the rows of two Gaussians that differ
C10_Witness ==
  /\ fn = "n_gauss" /\ pc = "done" /\ ngauss = 2 /\ ret # None
  /\ ret[1][1] # ret[1][2]
  /\ At(params, 0) # At(params, 1)

\* ----------------------------------------------------- plotting functions
\* a call of hist or of scatter has run
EffCall == pc = "plotted" /\ fn \in {"hist", "scatter"}

\* the length of the data of that call
DataLen == IF fn = "hist" THEN Len(pargs[1].arr) ELSE Len(pargs[1].xvals)

\* two quotients of counts are the same number (nan for 0/0, inf for n/0)
SameQuot(a, b) ==
  IF a.den = 0 \/ b.den = 0
  THEN a.den = b.den /\ ((a.num = 0) <=> (b.num = 0))
  ELSE a.num * b.den = b.num * a.den

\* the number of entries passing every cut that was supplied
PassAll ==
  LET co == pargs[1].cutold
      cn == pargs[1].cutnew
  IN IF co # None /\ cn # None THEN MaskSum(MaskAnd(cn[1], co[1]))
     ELSE IF co # None THEN MaskSum(co[1])
     ELSE IF cn # None THEN MaskSum(cn[1])
     ELSE DataLen

\* the total efficiency is the number of entries passing all supplied cuts
\* over the length of the data, and both efficiencies are 1 without a cut
TotalEffRight ==
  /\ cuteff # None /\ cutefftot # None
  /\ SameQuot(cutefftot[1],
              IF pargs[1].cutold = None /\ pargs[1].cutnew = None
              THEN Rat(1, 1) ELSE Rat(PassAll, DataLen))
  /\ (pargs[1].cutold = None /\ pargs[1].cutnew = None)
       => SameQuot(cuteff[1], Rat(1, 1))
  /\ (pargs[1].cutold = None /\ pargs[1].cutnew # None)
       => SameQuot(cuteff[1], Rat(MaskSum(pargs[1].cutnew[1]), DataLen))

C12_SameBinEdges ==
  (pc = "plotted" /\ fn = "hist") =>
    \A i, j \in 1..Len(drawn) : drawn[i].edges = drawn[j].edges

\* C13: densityplot called with an existing Axes in ax draws on it and
\* returns (None, ax), without an error and without a new figure.
C13_DrawsOnGivenAxes ==
  (pc = "plotted" /\ fn = "densityplot" /\ pargs[1].ax # None) =>
    /\ raised = NoExc
    /\ ret = Some([fig |-> None, ax |-> pargs[1].ax])

\* C14: densityplot normalises the colours on a log scale when lgclognorm is
\* True and linearly when it is False.
C14_NormFollowsFlag ==
  (pc = "plotted" /\ fn = "densityplot") =>
    /\ pargs[1].lgclognorm => norm = "LogNorm"
    /\ ~pargs[1].lgclognorm => norm # "LogNorm"

\* the functions that take a labeldict
LabelFns == {"hist", "scatter", "densityplot", "plot_gauss", "plot_n_gauss",
             "plot_saturation_correction"}

\* the default labels of the call that has run
CallDefaults ==
  DefaultLabels(fn, IF fn = "plot_n_gauss"
                    THEN (Len(pargs[1].fitparams) - 1) \div 3 ELSE 0)

\* C15: in every plotting function that takes a labeldict, the labels whose
\* keys labeldict holds are replaced and all others keep their defaults; the
\* dict of the caller is not modified; and a call with labeldict=None uses
\* the defaults, also after a call that was given overrides.
C15_OnlyGivenKeysReplaced ==
  (pc = "plotted" /\ fn \in LabelFns) =>
    LET ld == pargs[1].labeldict
    IN /\ labels # None
       /\ labeldict = ld
       /\ ld = None => labels[1] = CallDefaults
       /\ ld # None =>
            /\ DOMAIN labels[1] = DOMAIN CallDefaults \cup DOMAIN ld[1]
            /\ \A k \in DOMAIN labels[1] :
                 labels[1][k] = IF k \in DOMAIN ld[1] THEN ld[1][k]
                                ELSE CallDefaults[k]

\* plot_n_gauss has run with a labeldict that renames the first of two
\* peaks and brings a key of its own, right after a call that was given a
\* labeldict too
C15_Witness ==
  /\ pc = "plotted" /\ fn = "plot_n_gauss" /\ relabelled
  /\ Len(pargs[1].fitparams) = 7
  /\ pargs[1].labeldict # None
  /\ "peak1" \in DOMAIN pargs[1].labeldict[1]
  /\ labels[1]["peak1"] = "my peak" /\ labels[1]["peak2"] = "Peak2"
  /\ labels[1]["nsigma"] = "3" /\ labels[1]["title"] = "Gaussian Fit"

\* hist has run without a labeldict right after a call that was given one
C15_NoLeakWitness ==
  /\ pc = "plotted" /\ fn = "hist" /\ relabelled
  /\ pargs[1].labeldict = None
  /\ labels[1]["title"] = "Histogram"

\* -------------------------------------------- fitting: errors, arguments, order
\* a call of one of the two fitting routines
FitCall == fn \in {"fit_gauss", "fit_multi_gauss"}

\* C16: the parameter-count check of fit_multi_gauss is the only place where
\* fit_gauss or fit_multi_gauss raises an error itself: every other error of a
\* call is the error of the least-squares routine, which reaches the caller
\* with no plot rendered and no result returned.
C16_OnlyValidationRaises ==
  FitCall =>
    /\ raised \in {NoExc, "ValueError", "OptimizeError"}
    /\ raised = "ValueError" =>
         fn = "fit_multi_gauss" /\ fit_multi_gauss_mismatch(guess, ngauss) /\ y = None
    /\ raised = "OptimizeError" =>
         pc = "done" /\ fitcall # None /\ fitparams = None /\ plots = 0 /\ ret = None

\* the part of C16 about the least-squares routine alone: its error ends the
\* call with no plot and no result
C16_OptimizerErrorPropagates ==
  (FitCall /\ raised = "OptimizeError") =>
    pc = "done" /\ fitcall # None /\ fitparams = None /\ plots = 0 /\ ret = None

\* C17: fit_gauss and fit_multi_gauss never write to the arr of the caller nor
\* to guess: from the entry of a call to its end, with a result or with an
\* error, both keep the values they were passed with.
C17_ArgumentsUntouched ==
  [][(FitCall /\ pc # "idle" /\ pc' # "idle") => (arr' = arr /\ guess' = guess)]_vars

\* fit_multi_gauss has ended after its fit returned, with samples and a guess
C17_Witness ==
  /\ fn = "fit_multi_gauss" /\ pc = "done" /\ fitparams # None
  /\ Len(arr) = MaxSamples /\ Len(guess) = 4 /\ guess # fitparams

\* C18: within one call the steps come in the order bin, estimate the
\* background and build the guess, fit, plot, return; the plot is rendered at
\* most once, only when lgcplot is true and only after the fit has completed;
\* in fit_multi_gauss the parameter-count check precedes the binning.
C18_StepOrder ==
  FitCall =>
    /\ plots <= 1
    /\ plots = 1 => (lgcplot /\ fitparams # None)
    /\ fitparams # None => fitcall # None
    /\ fitcall # None => y # None
    /\ fn = "fit_gauss" =>
         /\ fitcall # None => p0 # None
         /\ p0 # None => (background # None /\ y # None)
         /\ background # None => y # None
    /\ ret # None => (fitparams # None /\ (lgcplot => plots = 1))
    /\ (fn = "fit_multi_gauss" /\ y # None) => ~fit_multi_gauss_mismatch(guess, ngauss)
    /\ (fn = "fit_multi_gauss" /\ raised = "ValueError") => y = None

\* fit_gauss has returned its result after rendering the plot
C18_Witness ==
  fn = "fit_gauss" /\ pc = "done" /\ lgcplot /\ plots = 1 /\ ret # None

\* ------------------------------------------------- scatter: the point sets
\* the points strictly inside xlims and ylims (every point without limits)
Inside ==
  LET a == pargs[1]
      In(v, lims) == lims = None \/ (Half(v) > lims[1][1] /\ Half(v) < lims[1][2])
  IN {i \in 1..Len(a.xvals) : In(a.xvals[i], a.xlims) /\ In(a.yvals[i], a.ylims)}

\* C19: in scatter with lgcrawdata true, for every combination of cutold and
\* cutnew, the point sets drawn as 'Full Data' (blue), as passing the previous
\* cut (red) and as passing the current cut (green) are pairwise disjoint and
\* their union is exactly the set of points strictly inside xlims and ylims.
C19_PointSetsPartition ==
  (pc = "plotted" /\ fn = "scatter" /\ pargs[1].lgcrawdata) =>
    /\ \A i, j \in 1..Len(drawn) : i # j => drawn[i].sel \cap drawn[j].sel = {}
    /\ UNION {drawn[i].sel : i \in 1..Len(drawn)} = Inside
    /\ \A i, j \in 1..Len(drawn) : i # j => drawn[i].c # drawn[j].c
    /\ \E i \in 1..Len(drawn) : drawn[i].c = "b"

\* scatter has drawn its three point sets with both cuts given, the green one
\* not empty, while a point on a limit is left out
C19_Witness ==
  /\ pc = "plotted" /\ fn = "scatter" /\ pargs[1].lgcrawdata
  /\ pargs[1].cutold # None /\ pargs[1].cutnew # None
  /\ Len(drawn) = 3
  /\ \E i \in 1..3 : drawn[i].c = "g" /\ drawn[i].sel # {}
  /\ Inside # 1..Len(pargs[1].xvals)

\* an efficiency is a number between 0 and 1
InUnit(e) == e.den # 0 => (0 <= e.num /\ e.num <= e.den)

\* C20: in hist and scatter, for every combination of cutold, cutnew and
\* lgcrawdata, the total and the current-cut efficiency are both assigned when
\* the legend entry is built, and with non-zero denominators both lie in [0, 1].
C20_EfficienciesAssigned ==
  EffCall =>
    /\ raised # "UnboundLocalError"
    /\ cuteff # None /\ cutefftot # None
    /\ InUnit(cuteff[1]) /\ InUnit(cutefftot[1])

\* scatter has built its legend entry without any cut
C20_Witness ==
  /\ pc = "plotted" /\ fn = "scatter" /\ raised = NoExc
  /\ pargs[1].cutold = None /\ pargs[1].cutnew = None /\ pargs[1].lgceff
  /\ cutefftot = Some(Rat(1, 1)) /\ ret # None

====
